---- MODULE Spec2Model ----
(***************************************************************************)
(* Streaming audio engine ("Blade Runner Engine"): the two revisions of    *)
(* AudioStreamController and the caller flow of GuidedPrayer.              *)
(*                                                                         *)
(*   engine = "cruise"  : src/services/audioEngine.ts (v3, cruise control) *)
(*   engine = "staging" : src/unnamed/part_002        (v7, staging area)   *)
(*                                                                         *)
(* JavaScript runs each task to completion between awaits on real I/O, so  *)
(* every action below is the code from one such await to the next.  An     *)
(* await on an async function that finished without real I/O resumes in a  *)
(* microtask, before any timer or caller event, and is not a yield here.   *)
(*                                                                         *)
(* RenderSpec runs processBlock alone, over every behaviour of synthesis.   *)
(*                                                                         *)
(* Time is counted in units of 1/20 s (0.05 s): 0.1 s = 2, 0.2 s = 4,      *)
(* 0.25 s = 5, 0.5 s = 10, 1 s = 20, 2 s = 40, 180 s = 3600.               *)
(***************************************************************************)
EXTENDS Integers, Sequences, FiniteSets, TLC

\* ------------------------------------------------------------------ bounds
MaxBlocks == 3          \* longest script of the cruise-control sessions
MaxCloseCalls == 1      \* close() calls issued by the caller per controller
MaxClockAdvances == 1   \* observable advances of audioContext.currentTime
MaxChunks == 2          \* most text chunks of one block
MaxOutline == 3         \* most blocks of the outline the architect returns
MaxFrames == 2          \* most stereo frames of one block given to writeChunk
MaxWrites == 2          \* writeChunk calls of the encoder run
MaxTextLen == 6         \* longest text given to the segmenter, in symbols
LongWord == 296         \* characters of the symbol that stands for a long word

\* ------------------------------------------------------- program constants
sampleRate == 24000
CROSSFADE_DURATION == 40      \* 2.0 s
BLOCKS_TO_BUFFER == 4
LOW_WATERMARK == 3600         \* 180 s
CURSOR_LEAD_CRUISE == 4       \* currentTime + 0.2
CURSOR_LEAD_STAGING == 5      \* currentTime + 0.25
GAP_EPSILON == 2              \* now + 0.1
FIRST_FADE_CRUISE == 10       \* fadeDuration = 0.5
FIRST_FADE_STAGING == 2       \* fadeDuration = 0.1
CONTINUOUS_AHEAD == 10        \* startTime > now + 0.5
HEADER_BYTES == 44
RIFF_EXTRA == 36
MAX_ATTEMPTS == 3             \* while (attempts < 3 && !success)
CHUNK_LIMIT == 300            \* (current + chunk).length < 300
HIGH_WATERMARK == 6000        \* "If buffer > 300s (5 mins), sleep"
DEFAULT_INTENSITY == 5        \* intensity || 0.5, in tenths
START_GAIN == 30              \* 0.3 * intensity, in 1/1000 per tenth of intensity
DUCK_GAIN == 15               \* 0.15 * intensity
FULL_GAIN == 40               \* 0.4 * intensity
BINAURAL_GAIN == 60           \* binGain.gain.value = 0.06, in 1/1000
DUCK_RAMP == 10               \* 0.5 s
HOLD_MIN == 20                \* voiceDuration > 1
FULL_SCALE == 1000            \* the sample value 1.0; samples in 1/1000
INT16_NEG == 32768            \* s * 0x8000
INT16_POS == 32767            \* s * 0x7FFF
INT16_BYTES == 2              \* bytes of one element of the Int16Array
BLOCK_ALIGN == 4              \* view.setUint16(32, 4, true)

\* the length of the interleaved array of a block of n frames
interleavedLength(n) == n * 2

\* an encoder that keeps 4 bytes per sample
int16Bytes_Float32(n) == n * 4

\* new Uint8Array(int16.buffer).length for an Int16Array of n elements
int16Bytes(n) == n * INT16_BYTES

\* bytes appended per time unit of audio: frames * 2 channels * 2 bytes
BytesPerUnit == int16Bytes(interleavedLength(sampleRate \div 20))

\* total durations (voice + 1 s tail) the renderer may produce: 1.5 s, 200 s
Durations == {30, 4000}
\* amounts by which the playback clock is seen to have advanced
ClockSteps == {30, 3000}

Engines == {"cruise", "staging"}
Callers == {"GuidedPrayer", "direct"}
StorageOutcomes == {"ok", "getDirectory", "getFileHandle", "createWritable", "write"}

Max(a, b) == IF a >= b THEN a ELSE b
Min(a, b) == IF a <= b THEN a ELSE b

RECURSIVE SumLen(_)
SumLen(s) == IF s = <<>> THEN 0 ELSE Head(s).len + SumLen(Tail(s))

VARIABLES
    engine, caller,                 \* which revision runs, who drives it
    totalBlocks, blockQueue, processedBlockCount,
    isProcessing, isProcessingQueue, cruiseControlInterval,
    hasStartedPlaying, playbackStagingQueue,
    ctxState, currentTime, nextStartTime, clockAdvances,
    useOPFS, fileHandle, writable, totalBytesWritten, memoryBuffer, file,
    pc, item,                       \* startStream's position, its block in flight
    tpc, titem,                     \* the timer callback's position and block
    header,                         \* finalizeStorage's header while it awaits
    cpc,                            \* handleStartStream after startStream
    hist,                           \* observations (callbacks, calls, logs)
    speech, rendered,               \* processBlock alone: the responses of
                                    \* generateSpeech, and what it made of them
    script, segments,               \* splitTextIntoChunks alone: text, chunks
    instructions, automation,       \* the mix of one block: inputs, gain events
    moods, pads,                    \* createPadBuffer alone: two moods, their tones
    pcmIn, pcmOut, pcmFrames,       \* writeChunk alone: samples in, Int16 out,
                                    \* frames appended so far
    prayer                          \* generateLongPrayer: the writer phase

cfgVars   == <<engine, caller>>
queueVars == <<totalBlocks, blockQueue, processedBlockCount, isProcessing,
               isProcessingQueue, cruiseControlInterval, hasStartedPlaying,
               playbackStagingQueue>>
clockVars == <<ctxState, currentTime, nextStartTime, clockAdvances>>
storeVars == <<useOPFS, fileHandle, writable, totalBytesWritten, memoryBuffer, file>>
taskVars  == <<pc, item, tpc, titem, header, cpc>>
blockVars == <<speech, rendered>>
textVars  == <<script, segments>>
mixVars   == <<instructions, automation>>
padVars   == <<moods, pads>>
pcmVars   == <<pcmIn, pcmOut, pcmFrames>>
renderVars == <<blockVars, textVars, mixVars, padVars, pcmVars, prayer>>
vars == <<cfgVars, queueVars, clockVars, storeVars, taskVars, hist, renderVars>>

NoItem == [idx |-> 0, dur |-> 0]
Unstitched == [len |-> 0, data |-> <<>>]
NoRender == [buffers |-> <<>>, calls |-> <<>>, result |-> "none", voice |-> Unstitched]
NoInstructions == [intensity |-> 0, binauralFreq |-> 0, voiceDuration |-> 0]
NoAutomation == [tone |-> <<>>, binaural |-> <<>>]
NoPrayer == [pc |-> "idle", rev |-> "none", duration |-> 0, numBlocks |-> 0,
             timePerBlockSeconds |-> 0, outline |-> 0, i |-> 0,
             slots |-> <<>>, settled |-> <<>>, fullScript |-> <<>>]

NoHeader == [riff |-> 0, dataLen |-> 0]
NoFile == [header |-> "none", riff |-> 0, dataLen |-> 0, data |-> <<>>]

\* ------------------------------------------------------------ observations
HistInit ==
    [ readyCount |-> 0, schedAtReady |-> -1, readyAfterClose |-> FALSE,
      completeCount |-> 0, completeOk |-> TRUE, completeAfterClose |-> FALSE,
      finalizeCalls |-> 0, finalizeDone |-> 0,
      closeCalls |-> 0, ctxCloses |-> 0, bytesAtClose |-> -1,
      urlCalls |-> 0, urlBeforeFinalize |-> FALSE,
      scheduled |-> <<>>, appended |-> <<>>, appendedAfterClose |-> FALSE,
      dequeued |-> <<>>, dequeuedAfterClose |-> FALSE,
      progress |-> <<>>, progressAfterClose |-> FALSE,
      timerStartedAfterClose |-> FALSE,
      nulls |-> {}, unvoiced |-> {}, thrown |-> {},
      stagedAtFirstFlush |-> -1,
      transportAfterClose |-> FALSE,
      dequeuedWhilePaused |-> FALSE ]

HReady(h) ==
    [h EXCEPT !.readyCount = @ + 1,
              !.schedAtReady = IF @ = -1 THEN Len(h.scheduled) ELSE @,
              !.readyAfterClose = @ \/ h.closeCalls > 0]
\* audioContext.close() is invoked
HCtxClose(h) == [h EXCEPT !.ctxCloses = @ + 1]
HClose(h, total) ==
    [h EXCEPT !.closeCalls = @ + 1,
              !.bytesAtClose = IF @ = -1 THEN total ELSE @]
HDequeue(h, idx) ==
    [h EXCEPT !.dequeued = Append(@, idx),
              !.dequeuedAfterClose = @ \/ h.closeCalls > 0]
HAppend(h, idx, len) ==
    [h EXCEPT !.appended = Append(@, [idx |-> idx, len |-> len]),
              !.appendedAfterClose = @ \/ h.closeCalls > 0]
HSched(h, idx, r, dur) ==
    [h EXCEPT !.scheduled = Append(@, [idx |-> idx, start |-> r.startTime,
                                       fade |-> r.fadeDuration, dur |-> dur,
                                       now |-> r.now, fadeOutEnd |-> r.fadeOutEnd,
                                       fadeOutStart |-> r.fadeOutStart,
                                       entry |-> r.entry, cursor |-> r.cursor,
                                       next |-> r.nextStartTime])]
\* onProgress(p): p = (k / n) * 100, kept as the pair <<k, n>>; 100 is <<1, 1>>
HProgress(h, k, n) ==
    [h EXCEPT !.progress = <<k, n>>,
              !.progressAfterClose = @ \/ h.closeCalls > 0]
HUrl(h) ==
    [h EXCEPT !.urlCalls = @ + 1,
              !.urlBeforeFinalize = @ \/ h.finalizeDone = 0]
HTimer(h) ==
    [h EXCEPT !.timerStartedAfterClose = @ \/ h.closeCalls > 0]

\* ------------------------------------------------------- pure computations
\* byte length of the Int16 copy of one rendered block of duration dur
ChunkBytes(dur) == dur * BytesPerUnit

\* audioEngine.ts schedulePlayback: cursor after the gap check, start, fade, new cursor
schedulePlaybackCruise(now, cursor, processed, dur) ==
    LET reset == IF cursor < now /\ processed > 0 THEN now + GAP_EPSILON ELSE cursor
        start == IF processed > 0
                 THEN Max(now, reset - CROSSFADE_DURATION)
                 ELSE reset
        fade  == IF processed > 0 THEN CROSSFADE_DURATION ELSE FIRST_FADE_CRUISE
    IN [now |-> now, entry |-> cursor, cursor |-> reset,
        startTime |-> start, fadeDuration |-> fade,
        fadeOutStart |-> start + dur - fade, fadeOutEnd |-> start + dur,
        nextStartTime |-> start + dur]

\* part_002 schedulePlayback
schedulePlaybackStaging(now, cursor, dur) ==
    LET reset == IF cursor < now THEN now + GAP_EPSILON ELSE cursor
        cross == reset > now + CONTINUOUS_AHEAD
        start == IF cross THEN Max(now, reset - CROSSFADE_DURATION) ELSE reset
        fade  == IF cross THEN CROSSFADE_DURATION ELSE FIRST_FADE_STAGING
    IN [now |-> now, entry |-> cursor, cursor |-> reset,
        startTime |-> start, fadeDuration |-> fade,
        fadeOutStart |-> start + dur - fade, fadeOutEnd |-> start + dur,
        nextStartTime |-> start + dur]

\* a header whose RIFF size is taken for the size of the whole file
HeaderFor_WholeFile(total) == [riff |-> HEADER_BYTES + total, dataLen |-> total]

\* finalizeStorage: the two size fields of the 44-byte header
HeaderFor(total) == [riff |-> RIFF_EXTRA + total, dataLen |-> total]

\* finalizeStorage, in-memory branch: header followed by every chunk, as one buffer
FinalBuffer(total, chunks) ==
    LET hd == HeaderFor(total)
    IN [kind |-> "container", len |-> HEADER_BYTES + total,
        riff |-> hd.riff, dataLen |-> hd.dataLen, chunks |-> chunks]

PcmChunk(idx, dur) == [kind |-> "pcm", idx |-> idx, len |-> ChunkBytes(dur)]

\* ---- processBlock, step 1: text chunks, generateSpeech and its retries
\* what one call of generateSpeech (with the decoding that follows it) does:
\* audio, an empty response, or a throw
Responses == {"data", "empty", "throw"}
\* the answers the service gives to the successive calls made for one chunk
ChunkPlans == [1..(MAX_ATTEMPTS + 1) -> Responses]
\* one block: splitTextIntoChunks yields at least one chunk
Plans == UNION {[1..n -> ChunkPlans] : n \in 1..MaxChunks}

\* a retry loop that allows one attempt more
retryContinues_OneMore(attempts, success) == attempts < MAX_ATTEMPTS + 1 /\ ~success

\* while (attempts < 3 && !success)
retryContinues(attempts, success) == attempts < MAX_ATTEMPTS /\ ~success

\* the retry loop of one chunk: calls made and buffers pushed when it ends
RECURSIVE retryLoop(_, _, _, _, _)
retryLoop(resp, attempts, success, calls, pushed) ==
    IF retryContinues(attempts, success)
    THEN IF resp[calls + 1] = "data"
         THEN retryLoop(resp, attempts, TRUE, calls + 1, pushed + 1)
         ELSE retryLoop(resp, attempts + 1, FALSE, calls + 1, pushed)
    ELSE [calls |-> calls, pushed |-> pushed]

\* the loop over the text chunks: blockChunkBuffers (the chunk each buffer
\* came from) and the number of generateSpeech calls per chunk
RECURSIVE chunkLoop(_, _, _, _)
chunkLoop(plan, i, buffers, calls) ==
    IF i > Len(plan) THEN [buffers |-> buffers, calls |-> calls]
    ELSE LET r == retryLoop(plan[i], 0, FALSE, 0, 0)
         IN chunkLoop(plan, i + 1,
                      buffers \o [k \in 1..r.pushed |-> i],
                      Append(calls, r.calls))

\* the AudioBuffer decoded for chunk i: chunk i speaks for i seconds
decoded(i) == [chunk |-> i, len |-> i * sampleRate]

\* stitchBuffers, the copy loop: each buffer is set at the running offset
RECURSIVE stitchCopy(_, _, _, _)
stitchCopy(buffers, k, offset, data) ==
    IF k > Len(buffers) THEN data
    ELSE stitchCopy(buffers, k + 1, offset + buffers[k].len,
                    Append(data, [chunk |-> buffers[k].chunk, at |-> offset,
                                  len |-> buffers[k].len]))

\* a stitcher that keeps the first buffer only
stitchBuffers_First(buffers) ==
    IF buffers = <<>> THEN [len |-> sampleRate, data |-> <<>>]
    ELSE [len |-> buffers[1].len,
          data |-> <<[chunk |-> buffers[1].chunk, at |-> 0, len |-> buffers[1].len]>>]

\* stitchBuffers: one buffer of the summed length holding the inputs in order
stitchBuffers(buffers) ==
    IF buffers = <<>> THEN [len |-> sampleRate, data |-> <<>>]
    ELSE [len |-> SumLen(buffers), data |-> stitchCopy(buffers, 1, 0, <<>>)]

\* a processBlock that renders the music bed also without any voice
processBlock_ToneOnly(plan) ==
    LET c == chunkLoop(plan, 1, <<>>, <<>>)
    IN [buffers |-> c.buffers, calls |-> c.calls, result |-> "voice",
        voice |-> Unstitched]

\* processBlock up to the stitched voice track:
\* `if (blockChunkBuffers.length === 0) return null`, then stitchBuffers
processBlock(plan) ==
    LET c == chunkLoop(plan, 1, <<>>, <<>>)
    IN [buffers |-> c.buffers, calls |-> c.calls,
        result |-> IF c.buffers = <<>> THEN "null" ELSE "voice",
        voice |-> IF c.buffers = <<>> THEN Unstitched
                  ELSE stitchBuffers([k \in DOMAIN c.buffers |-> decoded(c.buffers[k])])]

\* no call that the retries allow yields audio, for any chunk of the block
NoVoice(plan) ==
    \A i \in 1..Len(plan) : \A j \in 1..MAX_ATTEMPTS : plan[i][j] # "data"

\* ---- splitTextIntoChunks
\* A text is a sequence of symbols: "a" one letter, "W" a word of LongWord
\* letters, " " a space, "." a sentence terminator (. ! ? ;), "\n" a newline,
\* which is a terminator of the pattern and white space for trim().
Alphabet == {"a", "W", " ", ".", "\n"}
Terminators == {".", "\n"}
WhiteSpace == {" ", "\n"}
Texts == UNION {[1..n -> Alphabet] : n \in 0..MaxTextLen}

\* String.length
RECURSIVE length(_)
length(s) ==
    IF s = <<>> THEN 0
    ELSE (IF Head(s) = "W" THEN LongWord ELSE 1) + length(Tail(s))

\* the length of the longest prefix of s made of symbols of class
RECURSIVE span(_, _)
span(s, class) ==
    IF s = <<>> \/ Head(s) \notin class THEN 0 ELSE 1 + span(Tail(s), class)

\* text.match(/[^.!?;\n]+[.!?;\n]+/g): the successive leftmost matches; a
\* position where no match starts is skipped, "no match at all" is <<>>
RECURSIVE match(_)
match(s) ==
    IF s = <<>> THEN <<>>
    ELSE LET n == span(s, Alphabet \ Terminators)
             m == span(SubSeq(s, n + 1, Len(s)), Terminators)
         IN IF n = 0 THEN match(Tail(s))
            ELSE IF m = 0 THEN <<>>
            ELSE <<SubSeq(s, 1, n + m)>> \o match(SubSeq(s, n + m + 1, Len(s)))

\* String.trim
RECURSIVE trimStart(_)
trimStart(s) ==
    IF s # <<>> /\ Head(s) \in WhiteSpace THEN trimStart(Tail(s)) ELSE s
RECURSIVE trimEnd(_)
trimEnd(s) ==
    IF s # <<>> /\ s[Len(s)] \in WhiteSpace THEN trimEnd(SubSeq(s, 1, Len(s) - 1)) ELSE s
trim(s) == trimEnd(trimStart(s))

\* the merge loop; "after the loop" pushes what is left in current
RECURSIVE mergeLoop(_, _, _, _)
mergeLoop(chunks, i, current, mergedChunks) ==
    IF i > Len(chunks)
    THEN IF current # <<>> THEN Append(mergedChunks, trim(current)) ELSE mergedChunks
    ELSE IF length(current \o chunks[i]) < CHUNK_LIMIT
         THEN mergeLoop(chunks, i + 1, current \o <<" ">> \o chunks[i], mergedChunks)
         ELSE mergeLoop(chunks, i + 1, chunks[i],
                        IF current # <<>> THEN Append(mergedChunks, trim(current))
                        ELSE mergedChunks)

splitTextIntoChunks(t) ==
    LET found == match(t)
        chunks == IF found = <<>> THEN <<t>> ELSE found
        mergedChunks == mergeLoop(chunks, 1, <<>>, <<>>)
    IN IF Len(mergedChunks) > 0 THEN mergedChunks ELSE <<t>>

\* ---- createPadBuffer: the base frequencies of the tone, in 1/100 Hz
Moods == {"ethereal", "warm", "epic", "nature", "deep_focus"}

padFrequencies(mood) ==
    LET f0 == <<14683, 18500, 22000>>
        f1 == IF mood = "warm" \/ mood = "nature"
              THEN <<14683, 18500, 22000, 29366>> ELSE f0
        f2 == IF mood = "epic" THEN <<9800, 14683, 19600>> ELSE f1
    IN IF mood = "deep_focus" THEN <<11000, 16481, 19600>> ELSE f2

\* ---- processBlock, step 3: the gain automation of the mix
\* intensity in tenths; binauralFreq in Hz, 0 when the block asks for none;
\* voiceDuration in time units
Intensities == 0..10
BinauralFreqs == {0, 4}
VoiceDurations == {10, 20, 30, 100, 3980}

\* block.instructions.intensity || 0.5
intensityOf(given) == IF given = 0 THEN DEFAULT_INTENSITY ELSE given

\* the events put on musicGain.gain, and the constant gain of the binaural layer
mixAutomation(ins) ==
    LET intensity == intensityOf(ins.intensity)
        duckVol == DUCK_GAIN * intensity
        fullVol == FULL_GAIN * intensity
        v == ins.voiceDuration
    IN [tone |-> <<[op |-> "set", value |-> START_GAIN * intensity, time |-> 0],
                   [op |-> "ramp", value |-> duckVol, time |-> DUCK_RAMP]>>
                 \o (IF v > HOLD_MIN
                     THEN <<[op |-> "set", value |-> duckVol, time |-> v - DUCK_RAMP]>>
                     ELSE <<>>)
                 \o <<[op |-> "ramp", value |-> fullVol, time |-> v + DUCK_RAMP]>>,
        binaural |-> IF ins.binauralFreq # 0 THEN <<BINAURAL_GAIN>> ELSE <<>>]

\* ---- writeChunk on sample values
Samples == {-1500, -1000, -500, 500, 1500}
Channels == UNION {[1..n -> Samples] : n \in 1..MaxFrames}

\* processBlock: interleaved[i * 2] = L[i]; interleaved[i * 2 + 1] = R[i]
interleave(L, R) ==
    [i \in 1..interleavedLength(Len(L)) |->
        IF i % 2 = 1 THEN L[(i + 1) \div 2] ELSE R[i \div 2]]

\* Math.max(-1, Math.min(1, x))
clamp(x) == Max(-FULL_SCALE, Min(FULL_SCALE, x))

\* s < 0 ? s * 0x8000 : s * 0x7FFF, times FULL_SCALE
scaleSample(x) ==
    LET s == clamp(x) IN IF s < 0 THEN s * INT16_NEG ELSE s * INT16_POS

\* the integer part of v / FULL_SCALE, towards zero
truncate(v) == IF v < 0 THEN -((-v) \div FULL_SCALE) ELSE v \div FULL_SCALE

\* the store into an Int16Array element: truncation, then modulo 2^16
toInt16(v) == ((truncate(v) + INT16_NEG) % (2 * INT16_NEG)) - INT16_NEG

\* the Int16Array that writeChunk fills
encode(data) == [i \in DOMAIN data |-> toInt16(scaleSample(data[i]))]

\* ---- generateLongPrayer (geminiPrayerService.ts, both revisions in the file)
Revisions == {"first", "second"}
PrayerDurations == {5, 10, 20, 50, 60}
\* what a writer call yields: the pauseAfter of the block it wrote, or Failed
\* when the call or the parsing of its answer throws
Failed == -1
WriterOutcomes == {Failed, 5, 30, 31, 60}
CHUNK_SIZE == 2
PAUSE_LIMIT == 30

\* numBlocks by session length; 3 unless a branch applies
numBlocksOf(rev, duration) ==
    IF duration <= 5 THEN 1
    ELSE IF duration <= 10 THEN 2
    ELSE IF duration <= 15 THEN 3
    ELSE IF duration <= 20 THEN (IF rev = "first" THEN 3 ELSE 4)
    ELSE IF duration <= 30 THEN (IF rev = "first" THEN 4 ELSE 5)
    ELSE IF duration <= 45 THEN (IF rev = "first" THEN 6 ELSE 7)
    ELSE IF duration >= 60 THEN (IF rev = "first" THEN 8 ELSE 10)
    ELSE 3

\* Math.floor((duration * 60) / numBlocks)
timePerBlock(duration, n) == (duration * 60) \div n

\* the block the async callback returns for outline block src
writerBlock(rev, src, outcome, time) ==
    IF outcome = Failed
    THEN [src |-> src, ok |-> FALSE,
          pauseAfter |-> IF rev = "first" THEN 10 ELSE 15, targetDuration |-> time]
    ELSE [src |-> src, ok |-> TRUE,
          pauseAfter |-> IF outcome > PAUSE_LIMIT
                         THEN (IF rev = "first" THEN 30 ELSE 20) ELSE outcome,
          targetDuration |-> time]

Pending == [src |-> 0, ok |-> FALSE, pauseAfter |-> 0, targetDuration |-> 0]

\* outline.blocks.slice(i, i + chunkSize).map(async ...): one promise per block
startChunk(pr, i) ==
    [pr EXCEPT !.pc = "writers", !.i = i, !.settled = <<>>,
               !.slots = [k \in 1..Min(CHUNK_SIZE, pr.outline - i) |-> Pending]]

\* results taken in the order in which the promises settled
joinResults_BySettled(slots, settled) == [k \in DOMAIN settled |-> slots[settled[k]]]

\* await Promise.all(promises): the results in the order of the promises
joinResults(slots, settled) == slots

usesFile == useOPFS /\ writable # "null"

\* --------------------------------------------------------------------- Init
Init ==
    /\ engine \in Engines
    /\ caller \in Callers
    /\ engine = "staging" => caller = "direct"
    /\ totalBlocks = 0 /\ blockQueue = <<>> /\ processedBlockCount = 0
    /\ isProcessing = FALSE /\ isProcessingQueue = FALSE
    /\ cruiseControlInterval = FALSE
    /\ hasStartedPlaying = FALSE /\ playbackStagingQueue = <<>>
    /\ ctxState \in {"suspended", "running"}
    /\ currentTime = 0 /\ nextStartTime = 0 /\ clockAdvances = 0
    /\ useOPFS = TRUE /\ fileHandle = FALSE /\ writable = "null"
    /\ totalBytesWritten = 0 /\ memoryBuffer = <<>> /\ file = NoFile
    /\ pc = "idle" /\ item = NoItem /\ tpc = "idle" /\ titem = NoItem
    /\ header = NoHeader /\ cpc = "none"
    /\ hist = HistInit
    /\ speech = <<>> /\ rendered = NoRender
    /\ script = <<>> /\ segments = <<>>
    /\ instructions = NoInstructions /\ automation = NoAutomation
    /\ moods = <<>> /\ pads = <<>>
    /\ pcmIn = <<>> /\ pcmOut = <<>> /\ pcmFrames = 0
    /\ prayer = NoPrayer


\* ------------------------------------------------- storage (both revisions)
\* initStorage: every step may reject; the catch block falls back to RAM
initStorage(o) ==
    /\ fileHandle' = (o \in {"ok", "createWritable", "write"})
    /\ writable' = IF o \in {"ok", "write"} THEN "open" ELSE "null"
    /\ file' = IF o = "ok" THEN [NoFile EXCEPT !.header = "placeholder"] ELSE NoFile
    /\ useOPFS' = (o = "ok")
    /\ totalBytesWritten' = 0
    /\ memoryBuffer' = <<>>

\* an in-memory sink that keeps the newest chunk first
writeChunkMemory_Prepend(buf, idx, dur) == <<PcmChunk(idx, dur)>> \o buf

\* writeChunk, in-memory branch, and the byte counter
writeChunkMemory(buf, idx, dur) == Append(buf, PcmChunk(idx, dur))
writeChunkTotal(total, dur) == total + ChunkBytes(dur)
\* writeChunk, persistent branch, once writable.write(bytes) has resolved
writeChunkFile(f, idx, dur) ==
    [f EXCEPT !.data = Append(@, [idx |-> idx, len |-> ChunkBytes(dur)])]

\* finalizeStorage, persistent branch: seek(0) and write(header)
writeHeader(f, hd) ==
    [f EXCEPT !.header = "final", !.riff = hd.riff, !.dataLen = hd.dataLen]

\* ------------------------------------------------ caller: startStream(...)
\* startStream up to `await this.initStorage()`; GuidedPrayer returns early
\* on an empty script
StartStream ==
    /\ pc = "idle"
    /\ \E n \in 0..(IF engine = "staging" THEN MaxBlocks + 2 ELSE MaxBlocks) :
        /\ caller = "GuidedPrayer" => n >= 1
        /\ totalBlocks' = n
        /\ blockQueue' = [i \in 1..n |-> i]
    /\ isProcessing' = TRUE
    /\ processedBlockCount' = 0
    /\ hasStartedPlaying' = FALSE
    /\ playbackStagingQueue' = <<>>
    /\ pc' = "initStorage"
    /\ UNCHANGED <<cfgVars, renderVars, isProcessingQueue, cruiseControlInterval, clockVars,
                   storeVars, item, tpc, titem, header, cpc, hist>>

\* ---------------------------------------------- cruise-control controller
RenderPc(owner) == CASE owner = "warm1" -> "render1" [] owner = "warm2" -> "render2"
                     [] OTHER -> "render"
WritePc(owner) == CASE owner = "warm1" -> "write1" [] owner = "warm2" -> "write2"
                     [] OTHER -> "write"
AtPc(owner, p) == IF owner = "tick" THEN tpc = p ELSE pc = p
ItemOf(owner) == IF owner = "tick" THEN titem ELSE item

\* a stopCruiseControl that forgets clearInterval
stopCruiseControl_NoClear == cruiseControlInterval

\* stopCruiseControl(): clearInterval; the value of "a timer is active" after it
stopCruiseControl == FALSE

\* a timer callback that generates whatever the buffer holds
bufferLow_Always(cursor, now) == TRUE

\* the timer callback's test of the buffer health, timeRemaining < 180
bufferLow(cursor, now) == cursor - now < LOW_WATERMARK

\* close(): stopCruiseControl(); audioContext.close()
closeCruise(h, total) ==
    /\ cruiseControlInterval' = stopCruiseControl
    /\ ctxState' = "closed"
    /\ hist' = HCtxClose(HClose(h, total))

\* startCruiseControl(), startStream returns, and handleStartStream goes on:
\* getDownloadUrl() is called at once; without a file it resolves in the same
\* task, and updateState / close() follow.  ctx is the context state so far.
AfterStartStream(flag, h, total, ctx) ==
    /\ pc' = "returned" /\ item' = NoItem
    /\ isProcessingQueue' = flag
    /\ UNCHANGED <<tpc, titem, blockQueue>>
    /\ IF caller = "GuidedPrayer"
       THEN IF useOPFS /\ fileHandle
            THEN /\ cruiseControlInterval' = TRUE
                 /\ cpc' = "getFile"
                 /\ hist' = HUrl(HTimer(h))
                 /\ ctxState' = ctx
            ELSE /\ cpc' = "finished"
                 /\ closeCruise(HUrl(HTimer(h)), total)
       ELSE /\ cruiseControlInterval' = TRUE
            /\ hist' = HTimer(h)
            /\ ctxState' = ctx
            /\ UNCHANGED cpc

\* the timer callback after `await this.processNext()`: onProgress(progress)
AfterTick(flag, h, processed) ==
    /\ tpc' = "idle" /\ titem' = NoItem
    /\ isProcessingQueue' = flag
    /\ hist' = HProgress(h, processed, totalBlocks)
    /\ UNCHANGED <<pc, item, cpc, blockQueue, cruiseControlInterval, ctxState>>

\* a dequeue that reads the head of the queue and leaves it there
shift_Peek(queue) == queue

\* line 239: what blockQueue.shift() leaves in the queue
shift(queue) == Tail(queue)

\* processNext past its guard: set the flag, shift the queue, start rendering
Dequeue(owner, h, ctx) ==
    /\ isProcessingQueue' = TRUE
    /\ blockQueue' = shift(blockQueue)
    /\ hist' = HDequeue(h, Head(blockQueue))
    /\ IF owner = "tick"
       THEN /\ tpc' = RenderPc(owner)
            /\ titem' = [idx |-> Head(blockQueue), dur |-> 0]
            /\ UNCHANGED <<pc, item>>
       ELSE /\ pc' = RenderPc(owner)
            /\ item' = [idx |-> Head(blockQueue), dur |-> 0]
            /\ UNCHANGED <<tpc, titem>>
    /\ ctxState' = ctx
    /\ UNCHANGED <<cpc, cruiseControlInterval>>

\* processNext's guard
processNextGuard(queue, flag) == queue = <<>> \/ flag

\* second warm-start processNext, then startCruiseControl
ProcessNextWarm2(flag, h, total, ctx) ==
    IF processNextGuard(blockQueue, flag)
    THEN AfterStartStream(flag, h, total, ctx)
    ELSE Dequeue("warm2", h, ctx)

\* first warm-start processNext, then onReadyToPlay, then the second
ProcessNextWarm1(flag, h, total, ctx) ==
    IF processNextGuard(blockQueue, flag)
    THEN ProcessNextWarm2(flag, HReady(h), total, ctx)
    ELSE Dequeue("warm1", h, ctx)

\* what follows the end of a processNext, by who awaited it
AfterProcessNext(owner, h, processed, total) ==
    CASE owner = "warm1" -> ProcessNextWarm2(FALSE, HReady(h), total, ctxState)
      [] owner = "warm2" -> AfterStartStream(FALSE, h, total, ctxState)
      [] OTHER -> AfterTick(FALSE, h, processed)

\* startStream after initStorage (and resume): cursor, then the warm start
WarmStart(ctx) ==
    /\ nextStartTime' = currentTime + CURSOR_LEAD_CRUISE
    /\ ProcessNextWarm1(isProcessingQueue, hist, 0, ctx)
    /\ header' = header
    /\ UNCHANGED <<cfgVars, renderVars, totalBlocks, processedBlockCount, isProcessing,
                   hasStartedPlaying, playbackStagingQueue, currentTime, clockAdvances>>

CruiseInitStorageDone ==
    /\ engine = "cruise" /\ pc = "initStorage"
    /\ \E o \in StorageOutcomes : initStorage(o)
    /\ IF ctxState = "suspended"
       THEN /\ pc' = "resumeCtx"
            /\ UNCHANGED <<cfgVars, renderVars, queueVars, clockVars, item, tpc, titem, header, cpc, hist>>
       ELSE WarmStart(ctxState)

\* `await this.audioContext.resume()` settles: rejected if the context was
\* closed meanwhile, and startStream then throws into the caller's catch
CruiseResumeDone ==
    /\ engine = "cruise" /\ pc = "resumeCtx"
    /\ UNCHANGED storeVars
    /\ IF ctxState = "closed"
       THEN /\ pc' = "error"
            /\ UNCHANGED <<cfgVars, renderVars, queueVars, clockVars, item, tpc, titem, header, cpc, hist>>
       ELSE WarmStart("running")

\* processBlock of block idx has settled with outcome out
HRender(h, idx, out) ==
    [h EXCEPT !.nulls = IF out.r = "null" THEN @ \cup {idx} ELSE @,
              !.unvoiced = IF NoVoice(out.plan) THEN @ \cup {idx} ELSE @,
              !.thrown = IF out.r = "throw" \/ out.s = "throw" THEN @ \cup {idx} ELSE @]
\* schedulePlayback or writeChunk threw for block idx
HThrown(h, idx) == [h EXCEPT !.thrown = @ \cup {idx}]

\* synthesis behaviours of the blocks of a session: every chunk answered with
\* an empty response, and a silent chunk followed by one that succeeds at the
\* third attempt
Silent == [j \in 1..(MAX_ATTEMPTS + 1) |-> "empty"]
Flaky == [j \in 1..(MAX_ATTEMPTS + 1) |-> IF j < MAX_ATTEMPTS THEN "throw" ELSE "data"]
SessionPlans == {<<Silent>>, <<Silent, Flaky>>}

\* what processBlock and the schedulePlayback that follows it can do, for the
\* synthesis behaviour plan: with a voice track the mixing may still throw
OutcomesOf(plan) ==
    IF processBlock(plan).result = "null"
    THEN {[r |-> "null", dur |-> 0, s |-> "ok", plan |-> plan]}
    ELSE {[r |-> "throw", dur |-> 0, s |-> "ok", plan |-> plan]}
         \cup {[r |-> "pcm", dur |-> d, s |-> x, plan |-> plan] :
                    d \in Durations, x \in {"ok", "throw"}}
RenderOutcomes == UNION {OutcomesOf(plan) : plan \in SessionPlans}

\* processBlock settles for the processNext awaited by owner.
\*   r = "null"  : no chunk yielded audio
\*   r = "throw" : processBlock threw; caught at the end of processNext
\*   r = "pcm"   : a buffer of duration dur; schedulePlayback runs (s = "throw"
\*                 when createBuffer throws), then writeChunk
CruiseRenderDone(owner) ==
    /\ engine = "cruise" /\ AtPc(owner, RenderPc(owner))
    /\ UNCHANGED <<cfgVars, renderVars, totalBlocks, isProcessing, hasStartedPlaying,
                   playbackStagingQueue, currentTime, clockAdvances,
                   useOPFS, fileHandle, writable, file>>
    /\ header' = header
    /\ \E out \in RenderOutcomes :
        LET idx == ItemOf(owner).idx
            r   == out.r
            dur == out.dur
            s   == out.s
            sch == schedulePlaybackCruise(currentTime, nextStartTime,
                                          processedBlockCount, dur)
            h0  == HRender(hist, idx, out)
        IN
        CASE r = "null" ->
                /\ processedBlockCount' = processedBlockCount + 1
                /\ UNCHANGED <<nextStartTime, totalBytesWritten, memoryBuffer>>
                /\ AfterProcessNext(owner, h0, processedBlockCount + 1,
                                    totalBytesWritten)
          [] r = "throw" ->
                /\ UNCHANGED <<processedBlockCount, nextStartTime,
                               totalBytesWritten, memoryBuffer>>
                /\ AfterProcessNext(owner, h0, processedBlockCount,
                                    totalBytesWritten)
          [] r = "pcm" /\ s = "throw" ->
                /\ nextStartTime' = sch.cursor
                /\ UNCHANGED <<processedBlockCount, totalBytesWritten, memoryBuffer>>
                /\ AfterProcessNext(owner, h0, processedBlockCount,
                                    totalBytesWritten)
          [] r = "pcm" /\ s = "ok" /\ usesFile ->
                /\ nextStartTime' = sch.nextStartTime
                /\ hist' = HSched(h0, idx, sch, dur)
                /\ IF owner = "tick"
                   THEN /\ tpc' = WritePc(owner)
                        /\ titem' = [idx |-> idx, dur |-> dur]
                        /\ UNCHANGED <<pc, item>>
                   ELSE /\ pc' = WritePc(owner)
                        /\ item' = [idx |-> idx, dur |-> dur]
                        /\ UNCHANGED <<tpc, titem>>
                /\ UNCHANGED <<processedBlockCount, totalBytesWritten, memoryBuffer,
                               blockQueue, isProcessingQueue, cruiseControlInterval,
                               ctxState, cpc>>
          [] OTHER ->
                /\ r = "pcm" /\ s = "ok" /\ ~usesFile
                /\ nextStartTime' = sch.nextStartTime
                /\ memoryBuffer' = writeChunkMemory(memoryBuffer, idx, dur)
                /\ totalBytesWritten' = writeChunkTotal(totalBytesWritten, dur)
                /\ processedBlockCount' = processedBlockCount + 1
                /\ AfterProcessNext(owner,
                                    HAppend(HSched(h0, idx, sch, dur), idx, ChunkBytes(dur)),
                                    processedBlockCount + 1,
                                    writeChunkTotal(totalBytesWritten, dur))

\* `await this.writable.write(bytes)` settles: resolved (the bytes are in the
\* file, the counter is advanced) or rejected (caught by processNext)
CruiseWriteDone(owner) ==
    /\ engine = "cruise" /\ AtPc(owner, WritePc(owner))
    /\ UNCHANGED <<cfgVars, renderVars, totalBlocks, isProcessing, hasStartedPlaying,
                   playbackStagingQueue, currentTime, clockAdvances, nextStartTime,
                   useOPFS, fileHandle, writable, memoryBuffer, header>>
    /\ \E w \in {"ok", "throw"} :
        LET it == ItemOf(owner) IN
        IF w = "ok" /\ writable = "open"
        THEN /\ file' = writeChunkFile(file, it.idx, it.dur)
             /\ totalBytesWritten' = writeChunkTotal(totalBytesWritten, it.dur)
             /\ processedBlockCount' = processedBlockCount + 1
             /\ AfterProcessNext(owner, HAppend(hist, it.idx, ChunkBytes(it.dur)),
                                 processedBlockCount + 1,
                                 writeChunkTotal(totalBytesWritten, it.dur))
        ELSE /\ w = "throw"
             /\ UNCHANGED <<file, totalBytesWritten, processedBlockCount>>
             /\ AfterProcessNext(owner, HThrown(hist, it.idx), processedBlockCount,
                                 totalBytesWritten)


\* finalizeStorage is entered: the header is built from the counter as it is now
HFinalizeCall(h) == [h EXCEPT !.finalizeCalls = @ + 1]
HFinalizeDone(h) == [h EXCEPT !.finalizeDone = @ + 1]
finalizeUsesFile == useOPFS /\ writable # "null" /\ fileHandle

\* the timer callback of startCruiseControl, fired by setInterval
Tick ==
    /\ engine = "cruise" /\ cruiseControlInterval
    /\ UNCHANGED <<cfgVars, renderVars, totalBlocks, processedBlockCount, hasStartedPlaying,
                   playbackStagingQueue, clockVars, useOPFS, fileHandle, writable,
                   totalBytesWritten, file, pc, item, cpc>>
    /\ IF blockQueue = <<>> /\ ~isProcessingQueue
       THEN \* stopCruiseControl(); await finalizeStorage(); ...
            /\ tpc = "idle"
            /\ cruiseControlInterval' = stopCruiseControl
            /\ UNCHANGED <<blockQueue, isProcessingQueue, titem>>
            /\ IF finalizeUsesFile
               THEN /\ tpc' = "fin_seek"
                    /\ header' = HeaderFor(totalBytesWritten)
                    /\ hist' = HFinalizeCall(hist)
                    /\ UNCHANGED <<memoryBuffer, isProcessing>>
               ELSE /\ memoryBuffer' = <<FinalBuffer(totalBytesWritten, memoryBuffer)>>
                    /\ isProcessing' = FALSE
                    /\ hist' = HProgress(HFinalizeDone(HFinalizeCall(hist)), 1, 1)
                    /\ UNCHANGED <<tpc, header>>
       ELSE IF isProcessingQueue
       THEN \* an earlier processNext is still in flight: return
            UNCHANGED <<blockQueue, isProcessingQueue, cruiseControlInterval,
                        isProcessing, memoryBuffer, tpc, titem, header, hist>>
       ELSE /\ tpc = "idle"
            /\ UNCHANGED <<isProcessing, memoryBuffer, header>>
            /\ IF bufferLow(nextStartTime, currentTime)
               THEN IF processNextGuard(blockQueue, isProcessingQueue)
                    THEN AfterTick(isProcessingQueue, hist, processedBlockCount)
                    ELSE Dequeue("tick", hist, ctxState)
               ELSE AfterTick(isProcessingQueue, hist, processedBlockCount)

\* finalizeStorage, persistent branch, in the timer callback
CruiseFinSeekDone ==
    /\ engine = "cruise" /\ tpc = "fin_seek"
    /\ tpc' = "fin_write"
    /\ UNCHANGED <<cfgVars, renderVars, queueVars, clockVars, storeVars, pc, item, titem,
                   header, cpc, hist>>

CruiseFinWriteDone ==
    /\ engine = "cruise" /\ tpc = "fin_write"
    /\ tpc' = "fin_close"
    /\ file' = writeHeader(file, header)
    /\ UNCHANGED <<cfgVars, renderVars, queueVars, clockVars, useOPFS, fileHandle, writable,
                   totalBytesWritten, memoryBuffer, pc, item, titem, header, cpc, hist>>

\* writable.close() resolved; then isProcessing = false; onProgress(100)
CruiseFinCloseDone ==
    /\ engine = "cruise" /\ tpc = "fin_close"
    /\ tpc' = "idle"
    /\ writable' = "closed"
    /\ header' = NoHeader
    /\ isProcessing' = FALSE
    /\ hist' = HProgress(HFinalizeDone(hist), 1, 1)
    /\ UNCHANGED <<cfgVars, renderVars, totalBlocks, blockQueue, processedBlockCount,
                   isProcessingQueue, cruiseControlInterval, hasStartedPlaying,
                   playbackStagingQueue, clockVars, useOPFS, fileHandle,
                   totalBytesWritten, memoryBuffer, file, pc, item, titem, cpc>>

\* handleStartStream: fileHandle.getFile() resolved, the URL is stored,
\* then streamControllerRef.current.close()
CallerGotUrl ==
    /\ cpc = "getFile"
    /\ cpc' = "finished"
    /\ closeCruise(hist, totalBytesWritten)
    /\ UNCHANGED <<cfgVars, renderVars, totalBlocks, blockQueue, processedBlockCount, isProcessing,
                   isProcessingQueue, hasStartedPlaying, playbackStagingQueue,
                   currentTime, nextStartTime, clockAdvances, storeVars,
                   pc, item, tpc, titem, header>>


\* ------------------------------------------------- caller: transport calls
\* close(), from the cleanup effect or handleReset of GuidedPrayer, or any caller
closeStaging(h, total) ==
    /\ isProcessing' = FALSE
    /\ ctxState' = "closed"
    /\ hist' = HCtxClose(HClose(h, total))

Close ==
    /\ pc # "idle"
    /\ hist.closeCalls < MaxCloseCalls
    /\ IF engine = "cruise"
       THEN closeCruise(hist, totalBytesWritten) /\ UNCHANGED isProcessing
       ELSE closeStaging(hist, totalBytesWritten) /\ UNCHANGED cruiseControlInterval
    /\ UNCHANGED <<cfgVars, renderVars, totalBlocks, blockQueue, processedBlockCount,
                   isProcessingQueue, hasStartedPlaying, playbackStagingQueue,
                   currentTime, nextStartTime, clockAdvances, storeVars, taskVars>>

\* a pause() that toggles the clock
pause_Toggle(state) ==
    CASE state = "running" -> "suspended"
      [] state = "suspended" -> "running"
      [] OTHER -> state

\* pause(): if (state === 'running') audioContext.suspend()
pause(state) == IF state = "running" THEN "suspended" ELSE state

\* resume(): if (state === 'suspended') audioContext.resume()
resume(state) == IF state = "suspended" THEN "running" ELSE state

\* a pause() or resume() call is made
HTransport(h) == [h EXCEPT !.transportAfterClose = @ \/ h.closeCalls > 0]

\* pause(), at any time after startStream()
Pause ==
    /\ pc # "idle"
    /\ ctxState' = pause(ctxState)
    /\ hist' = HTransport(hist)
    /\ UNCHANGED <<cfgVars, renderVars, queueVars, currentTime, nextStartTime, clockAdvances,
                   storeVars, taskVars>>

\* resume(), at any time after startStream()
Resume ==
    /\ pc # "idle"
    /\ ctxState' = resume(ctxState)
    /\ hist' = HTransport(hist)
    /\ UNCHANGED <<cfgVars, renderVars, queueVars, currentTime, nextStartTime, clockAdvances,
                   storeVars, taskVars>>

\* audioContext.currentTime, as read by the next task, has advanced
ClockAdvance ==
    /\ pc # "idle"
    /\ ctxState = "running"
    /\ clockAdvances < MaxClockAdvances
    /\ \E d \in ClockSteps : currentTime' = currentTime + d
    /\ clockAdvances' = clockAdvances + 1
    /\ UNCHANGED <<cfgVars, renderVars, queueVars, ctxState, nextStartTime, storeVars,
                   taskVars, hist>>

\* --------------------------------------------------- staging controller
HComplete(h, ok) ==
    [h EXCEPT !.completeCount = @ + 1,
              !.completeOk = @ /\ ok,
              !.completeAfterClose = @ \/ h.closeCalls > 0]

\* schedulePlayback over the first k staged blocks, in order
RECURSIVE Drain(_, _, _, _, _)
Drain(stq, k, now, cursor, h) ==
    IF k = 0 THEN [cursor |-> cursor, h |-> h]
    ELSE LET sch == schedulePlaybackStaging(now, cursor, Head(stq).dur)
         IN Drain(Tail(stq), k - 1, now, sch.nextStartTime,
                  HSched(h, Head(stq).idx, sch, Head(stq).dur))

\* onComplete(url); isProcessing = false
Complete(h, stq) ==
    /\ pc' = "done"
    /\ isProcessing' = FALSE
    /\ hist' = HComplete(h, blockQueue = <<>> /\ h.finalizeDone = 1 /\ stq = <<>>)

\* the while loop of flushStagingQueue from the given cursor, then what follows
\* the flush at its call site: `where` is "loop" (lines 198-204) or "final"
\* (lines 217-222); `ready` says that the call site goes on with
\* hasStartedPlaying = true; onReadyToPlayCallback().
\* schedulePlayback may throw for the block after the first k; nothing catches it.
FlushDrain(where, ready, h, stq, cursor, ctx) ==
    /\ ctxState' = ctx
    /\ \E k \in 0..Len(stq) :
        LET res == Drain(stq, k, currentTime, cursor, h) IN
        IF k = Len(stq)
        THEN /\ nextStartTime' = res.cursor
             /\ playbackStagingQueue' = <<>>
             /\ hasStartedPlaying' = (ready \/ hasStartedPlaying)
             /\ LET h2 == IF ready THEN HReady(res.h) ELSE res.h IN
                IF where = "loop"
                THEN pc' = "loop" /\ hist' = h2 /\ UNCHANGED isProcessing
                ELSE Complete(h2, <<>>)
        ELSE /\ nextStartTime' =
                   schedulePlaybackStaging(currentTime, res.cursor, stq[k + 1].dur).cursor
             /\ playbackStagingQueue' = SubSeq(stq, k + 2, Len(stq))
             /\ pc' = "error"
             /\ hist' = HThrown(res.h, stq[k + 1].idx)
             /\ UNCHANGED <<hasStartedPlaying, isProcessing>>

\* flushStagingQueue is entered for the first time with stq staged
HFirstFlush(h, stq) ==
    [h EXCEPT !.stagedAtFirstFlush = IF @ = -1 THEN Len(stq) ELSE @]

\* flushStagingQueue: the first flush resumes a suspended context and sets the cursor
flushStagingQueue(where, ready, h, stq) ==
    IF ~hasStartedPlaying
    THEN IF ctxState = "suspended"
         THEN /\ pc' = IF where = "loop" THEN "flushResume" ELSE "flushResumeFinal"
              /\ playbackStagingQueue' = stq
              /\ hist' = HFirstFlush(h, stq)
              /\ UNCHANGED <<hasStartedPlaying, nextStartTime, ctxState, isProcessing>>
         ELSE FlushDrain(where, ready, HFirstFlush(h, stq), stq,
                         currentTime + CURSOR_LEAD_STAGING, ctxState)
    ELSE FlushDrain(where, ready, h, stq, nextStartTime, ctxState)

\* the buffer-target test without its !hasStartedPlaying latch
bufferTargetMet_NoLatch(started, done, target) == done >= target

\* line 196: the buffer target is met for the first time
bufferTargetMet(started, done, target) == ~started /\ done >= target

\* a loop that waits while the playback clock is suspended
loopContinues_Throttled(queue, processing) ==
    queue # <<>> /\ processing /\ ctxState # "suspended"

\* a loop that stops one block early
loopContinues_SkipLast(queue, processing) == Len(queue) > 1 /\ processing

\* line 184: the loop goes on
loopContinues(queue, processing) == queue # <<>> /\ processing

\* a progress computed before the count is advanced
progressValue_Stale(done, total) == <<done - 1, total>>

\* (processedBlockCount / totalBlocks) * 100, kept as the pair <<count, total>>
progressValue(done, total) == <<done, total>>

\* a loop that leaves the blocks rendered after playback began in the queue
flushAgain_Never(started) == FALSE

\* line 201: `else if (this.hasStartedPlaying)` flush at once
flushAgain(started) == started

\* the loop body after processAndStoreBlock: count, onProgress, buffer target
AfterStore(h, stq) ==
    LET done == processedBlockCount + 1
        p == progressValue(done, totalBlocks)
        h1 == HProgress(h, p[1], p[2])
        safeBufferTarget == Min(BLOCKS_TO_BUFFER, totalBlocks)
    IN /\ processedBlockCount' = done
       /\ IF bufferTargetMet(hasStartedPlaying, done, safeBufferTarget)
          THEN flushStagingQueue("loop", TRUE, h1, stq)
          ELSE IF flushAgain(hasStartedPlaying)
          THEN flushStagingQueue("loop", FALSE, h1, stq)
          ELSE /\ pc' = "loop"
               /\ playbackStagingQueue' = stq
               /\ hist' = h1
               /\ UNCHANGED <<hasStartedPlaying, nextStartTime, ctxState, isProcessing>>

\* after the loop, past finalizeStorage and getDownloadUrl: the fallback flush,
\* then onComplete
AfterUrl(h) ==
    IF ~hasStartedPlaying
    THEN flushStagingQueue("final", TRUE, h, playbackStagingQueue)
    ELSE /\ Complete(h, playbackStagingQueue)
         /\ UNCHANGED <<hasStartedPlaying, playbackStagingQueue, nextStartTime, ctxState>>

\* getDownloadUrl as called by startStream
GetUrl(h) ==
    IF useOPFS /\ fileHandle
    THEN /\ pc' = "getFile"
         /\ hist' = HUrl(h)
         /\ UNCHANGED <<hasStartedPlaying, playbackStagingQueue, nextStartTime,
                        ctxState, isProcessing>>
    ELSE AfterUrl(HUrl(h))

StagingInitStorageDone ==
    /\ engine = "staging" /\ pc = "initStorage"
    /\ \E o \in StorageOutcomes : initStorage(o)
    /\ pc' = "loop"
    /\ UNCHANGED <<cfgVars, renderVars, queueVars, clockVars, item, tpc, titem, header, cpc, hist>>

\* a block is dequeued while the caller has the playback clock paused: once
\* playback has started, only pause() leaves the clock suspended
HDequeuePaused(h, ctx) ==
    [h EXCEPT !.dequeuedWhilePaused = @ \/ (hasStartedPlaying /\ ctx = "suspended")]

\* the loop condition, evaluated after initStorage and after each 100 ms pause
StagingLoop ==
    /\ engine = "staging" /\ pc = "loop"
    /\ UNCHANGED <<cfgVars, renderVars, totalBlocks, processedBlockCount, isProcessingQueue,
                   cruiseControlInterval, currentTime, clockAdvances, useOPFS,
                   fileHandle, writable, totalBytesWritten, file, tpc, titem, cpc>>
    /\ IF loopContinues(blockQueue, isProcessing)
       THEN /\ blockQueue' = Tail(blockQueue)
            /\ item' = [idx |-> Head(blockQueue), dur |-> 0]
            /\ pc' = "render"
            /\ hist' = HDequeuePaused(HDequeue(hist, Head(blockQueue)), ctxState)
            /\ UNCHANGED <<isProcessing, hasStartedPlaying, playbackStagingQueue,
                           nextStartTime, ctxState, memoryBuffer, header>>
       ELSE /\ UNCHANGED <<blockQueue, item>>
            /\ IF isProcessing
               THEN IF finalizeUsesFile
                    THEN /\ pc' = "fin_seek"
                         /\ header' = HeaderFor(totalBytesWritten)
                         /\ hist' = HFinalizeCall(hist)
                         /\ UNCHANGED <<isProcessing, hasStartedPlaying,
                                        playbackStagingQueue, nextStartTime, ctxState,
                                        memoryBuffer>>
                    ELSE /\ memoryBuffer' = <<FinalBuffer(totalBytesWritten, memoryBuffer)>>
                         /\ UNCHANGED header
                         /\ GetUrl(HFinalizeDone(HFinalizeCall(hist)))
               ELSE /\ pc' = "done"
                    /\ UNCHANGED <<isProcessing, hasStartedPlaying, playbackStagingQueue,
                                   nextStartTime, ctxState, memoryBuffer, header, hist>>

\* processBlock settles inside processAndStoreBlock
StagingRenderDone ==
    /\ engine = "staging" /\ pc = "render"
    /\ UNCHANGED <<cfgVars, renderVars, totalBlocks, blockQueue, isProcessingQueue,
                   cruiseControlInterval, currentTime, clockAdvances, useOPFS,
                   fileHandle, writable, file, tpc, titem, header, cpc>>
    /\ \E out \in {o \in RenderOutcomes : o.s = "ok"} :
        LET h0 == HRender(hist, item.idx, out) IN
        CASE out.r = "pcm" /\ usesFile ->
                /\ pc' = "write"
                /\ item' = [idx |-> item.idx, dur |-> out.dur]
                /\ hist' = h0
                /\ UNCHANGED <<processedBlockCount, isProcessing, hasStartedPlaying,
                               playbackStagingQueue, ctxState, nextStartTime,
                               totalBytesWritten, memoryBuffer>>
          [] out.r = "pcm" /\ ~usesFile ->
                /\ memoryBuffer' = writeChunkMemory(memoryBuffer, item.idx, out.dur)
                /\ totalBytesWritten' = writeChunkTotal(totalBytesWritten, out.dur)
                /\ item' = NoItem
                /\ AfterStore(HAppend(h0, item.idx, ChunkBytes(out.dur)),
                              Append(playbackStagingQueue,
                                     [idx |-> item.idx, dur |-> out.dur]))
          [] OTHER ->
                /\ item' = NoItem
                /\ UNCHANGED <<totalBytesWritten, memoryBuffer>>
                /\ AfterStore(h0, playbackStagingQueue)

\* `await this.writable.write(bytes)` settles inside writeChunk
StagingWriteDone ==
    /\ engine = "staging" /\ pc = "write"
    /\ UNCHANGED <<cfgVars, renderVars, totalBlocks, blockQueue, isProcessingQueue,
                   cruiseControlInterval, currentTime, clockAdvances, useOPFS,
                   fileHandle, writable, memoryBuffer, tpc, titem, header, cpc>>
    /\ item' = NoItem
    /\ \E w \in {"ok", "throw"} :
        IF w = "ok" /\ writable = "open"
        THEN /\ file' = writeChunkFile(file, item.idx, item.dur)
             /\ totalBytesWritten' = writeChunkTotal(totalBytesWritten, item.dur)
             /\ AfterStore(HAppend(hist, item.idx, ChunkBytes(item.dur)),
                           Append(playbackStagingQueue, [idx |-> item.idx, dur |-> item.dur]))
        ELSE /\ w = "throw"
             /\ UNCHANGED <<file, totalBytesWritten>>
             /\ AfterStore(HThrown(hist, item.idx), playbackStagingQueue)

\* `await this.audioContext.resume()` inside flushStagingQueue settles
StagingFlushResumeDone ==
    /\ engine = "staging" /\ pc \in {"flushResume", "flushResumeFinal"}
    /\ UNCHANGED <<cfgVars, renderVars, totalBlocks, blockQueue, processedBlockCount,
                   isProcessingQueue, cruiseControlInterval, currentTime,
                   clockAdvances, storeVars, item, tpc, titem, header, cpc>>
    /\ IF ctxState = "closed"
       THEN /\ pc' = "error"
            /\ UNCHANGED <<isProcessing, hasStartedPlaying, playbackStagingQueue,
                           ctxState, nextStartTime, hist>>
       ELSE FlushDrain(IF pc = "flushResume" THEN "loop" ELSE "final", TRUE, hist,
                       playbackStagingQueue, currentTime + CURSOR_LEAD_STAGING, "running")

\* finalizeStorage, persistent branch, inside startStream
StagingFinSeekDone ==
    /\ engine = "staging" /\ pc = "fin_seek"
    /\ pc' = "fin_write"
    /\ UNCHANGED <<cfgVars, renderVars, queueVars, clockVars, storeVars, item, tpc, titem,
                   header, cpc, hist>>

StagingFinWriteDone ==
    /\ engine = "staging" /\ pc = "fin_write"
    /\ pc' = "fin_close"
    /\ file' = writeHeader(file, header)
    /\ UNCHANGED <<cfgVars, renderVars, queueVars, clockVars, useOPFS, fileHandle, writable,
                   totalBytesWritten, memoryBuffer, item, tpc, titem, header, cpc, hist>>

\* writable.close() resolved; finalizeStorage returns; getDownloadUrl is called
StagingFinCloseDone ==
    /\ engine = "staging" /\ pc = "fin_close"
    /\ writable' = "closed"
    /\ header' = NoHeader
    /\ GetUrl(HFinalizeDone(hist))
    /\ UNCHANGED <<cfgVars, renderVars, totalBlocks, blockQueue, processedBlockCount,
                   isProcessingQueue, cruiseControlInterval, currentTime,
                   clockAdvances, useOPFS, fileHandle, totalBytesWritten,
                   memoryBuffer, file, item, tpc, titem, cpc>>

\* fileHandle.getFile() resolved inside getDownloadUrl
StagingGetFileDone ==
    /\ engine = "staging" /\ pc = "getFile"
    /\ AfterUrl(hist)
    /\ UNCHANGED <<cfgVars, renderVars, totalBlocks, blockQueue, processedBlockCount,
                   isProcessingQueue, cruiseControlInterval, currentTime,
                   clockAdvances, storeVars, item, tpc, titem, header, cpc>>

\* ----------------------------------------------------------- specification
Next ==
    \/ StartStream
    \/ CruiseInitStorageDone
    \/ CruiseResumeDone
    \/ \E owner \in {"warm1", "warm2", "tick"} : CruiseRenderDone(owner)
    \/ \E owner \in {"warm1", "warm2", "tick"} : CruiseWriteDone(owner)
    \/ Tick
    \/ CruiseFinSeekDone
    \/ CruiseFinWriteDone
    \/ CruiseFinCloseDone
    \/ CallerGotUrl
    \/ StagingInitStorageDone
    \/ StagingLoop
    \/ StagingRenderDone
    \/ StagingWriteDone
    \/ StagingFlushResumeDone
    \/ StagingFinSeekDone
    \/ StagingFinWriteDone
    \/ StagingFinCloseDone
    \/ StagingGetFileDone
    \/ Close
    \/ Pause
    \/ Resume
    \/ ClockAdvance

Spec == Init /\ [][Next]_vars


\* Cruise-control sessions in which close() and pause() are never called and
\* the playback clock keeps advancing while audio is buffered ahead of it.
LongStep == CHOOSE d \in ClockSteps : \A e \in ClockSteps : d >= e
ClockRun ==
    /\ pc # "idle"
    /\ ctxState = "running"
    /\ ~bufferLow(nextStartTime, currentTime)
    /\ currentTime' = currentTime + LongStep
    /\ UNCHANGED <<cfgVars, renderVars, queueVars, ctxState, nextStartTime, clockAdvances,
                   storeVars, taskVars, hist>>

CruiseRender == \E owner \in {"warm1", "warm2", "tick"} : CruiseRenderDone(owner)
CruiseWrite == \E owner \in {"warm1", "warm2", "tick"} : CruiseWriteDone(owner)

InitLive == Init /\ engine = "cruise" /\ caller = "direct"

NextLive ==
    \/ StartStream
    \/ CruiseInitStorageDone
    \/ CruiseResumeDone
    \/ CruiseRender
    \/ CruiseWrite
    \/ Tick
    \/ CruiseFinSeekDone
    \/ CruiseFinWriteDone
    \/ CruiseFinCloseDone
    \/ ClockAdvance
    \/ ClockRun

\* every pending await settles, the interval timer keeps firing, the clock runs
LiveSpec ==
    /\ InitLive /\ [][NextLive]_vars
    /\ WF_vars(CruiseInitStorageDone) /\ WF_vars(CruiseResumeDone)
    /\ WF_vars(CruiseRender) /\ WF_vars(CruiseWrite)
    /\ WF_vars(Tick)
    /\ WF_vars(CruiseFinSeekDone) /\ WF_vars(CruiseFinWriteDone)
    /\ WF_vars(CruiseFinCloseDone)
    /\ WF_vars(ClockRun)

\* sessions on a context that is running when the controller is constructed:
\* every suspension of the clock is then the caller's pause()
InitRunning == Init /\ ctxState = "running"
RunningSpec == InitRunning /\ [][Next]_vars

\* processBlock alone, for every behaviour of the synthesis service
ProcessBlock ==
    /\ rendered = NoRender
    /\ \E plan \in Plans :
        /\ speech' = plan
        /\ rendered' = processBlock(plan)
    /\ UNCHANGED <<cfgVars, queueVars, clockVars, storeVars, taskVars, hist,
                   textVars, mixVars, padVars, pcmVars, prayer>>

RenderSpec == Init /\ [][ProcessBlock]_vars

\* splitTextIntoChunks alone, for every text of the alphabet
Segment ==
    /\ segments = <<>>
    /\ \E t \in Texts :
        /\ script' = t
        /\ segments' = splitTextIntoChunks(t)
    /\ UNCHANGED <<cfgVars, queueVars, clockVars, storeVars, taskVars, hist,
                   blockVars, mixVars, padVars, pcmVars, prayer>>

SegmenterSpec == Init /\ [][Segment]_vars

\* the mixing step of processBlock alone, for every instruction and voice length
Mix ==
    /\ automation = NoAutomation
    /\ \E i \in Intensities, f \in BinauralFreqs, v \in VoiceDurations :
        LET ins == [intensity |-> i, binauralFreq |-> f, voiceDuration |-> v]
        IN /\ instructions' = ins
           /\ automation' = mixAutomation(ins)
    /\ UNCHANGED <<cfgVars, queueVars, clockVars, storeVars, taskVars, hist,
                   blockVars, textVars, padVars, pcmVars, prayer>>

MixSpec == Init /\ [][Mix]_vars

\* createPadBuffer alone, called for two moods
CreatePads ==
    /\ pads = <<>>
    /\ \E m1 \in Moods, m2 \in Moods :
        /\ moods' = <<m1, m2>>
        /\ pads' = <<padFrequencies(m1), padFrequencies(m2)>>
    /\ UNCHANGED <<cfgVars, queueVars, clockVars, storeVars, taskVars, hist,
                   blockVars, textVars, mixVars, pcmVars, prayer>>

PadSpec == Init /\ [][CreatePads]_vars

\* processBlock's interleaving and writeChunk on the samples of one block;
\* no writable stream is open, so the bytes go to memoryBuffer
WriteSamples ==
    /\ Len(memoryBuffer) < MaxWrites
    /\ ~usesFile
    /\ \E L \in Channels, R \in Channels :
        /\ Len(L) = Len(R)
        /\ LET data == interleave(L, R)
               int16 == encode(data)
               bytes == int16Bytes(Len(int16))
           IN /\ pcmIn' = data
              /\ pcmOut' = int16
              /\ pcmFrames' = pcmFrames + Len(L)
              /\ memoryBuffer' = Append(memoryBuffer,
                      [kind |-> "pcm", idx |-> Len(memoryBuffer) + 1, len |-> bytes])
              /\ totalBytesWritten' = totalBytesWritten + bytes
    /\ UNCHANGED <<cfgVars, queueVars, clockVars, useOPFS, fileHandle, writable, file,
                   taskVars, hist, blockVars, textVars, mixVars, padVars, prayer>>

PcmSpec == Init /\ [][WriteSamples]_vars

\* generateLongPrayer up to the first pair of writer calls: the outline has
\* been received and parsed
GeneratePrayer ==
    /\ prayer.pc = "idle"
    /\ \E rev \in Revisions, duration \in PrayerDurations, n \in 0..MaxOutline :
        LET numBlocks == numBlocksOf(rev, duration)
            pr == [NoPrayer EXCEPT !.rev = rev, !.duration = duration,
                                   !.numBlocks = numBlocks,
                                   !.timePerBlockSeconds = timePerBlock(duration, numBlocks),
                                   !.outline = n]
        IN prayer' = IF n = 0 THEN [pr EXCEPT !.pc = "returned"] ELSE startChunk(pr, 0)
    /\ UNCHANGED <<cfgVars, queueVars, clockVars, storeVars, taskVars, hist,
                   blockVars, textVars, mixVars, padVars, pcmVars>>

\* one writer call of the pair in flight settles; when it is the last one
\* Promise.all resolves, the results are pushed and the loop goes on
WriterSettles ==
    /\ prayer.pc = "writers"
    /\ \E k \in DOMAIN prayer.slots, outcome \in WriterOutcomes :
        /\ prayer.slots[k] = Pending
        /\ LET slots == [prayer.slots EXCEPT ![k] =
                            writerBlock(prayer.rev, prayer.i + k, outcome,
                                        prayer.timePerBlockSeconds)]
               settled == Append(prayer.settled, k)
               pr == [prayer EXCEPT !.slots = slots, !.settled = settled]
           IN IF Len(settled) < Len(slots)
              THEN prayer' = pr
              ELSE LET pushed == [pr EXCEPT !.fullScript =
                                      @ \o joinResults(slots, settled)]
                       next == prayer.i + CHUNK_SIZE
                   IN prayer' = IF next < prayer.outline
                                THEN startChunk([pushed EXCEPT !.slots = <<>>], next)
                                ELSE [pushed EXCEPT !.pc = "returned"]
    /\ UNCHANGED <<cfgVars, queueVars, clockVars, storeVars, taskVars, hist,
                   blockVars, textVars, mixVars, padVars, pcmVars>>

PrayerSpec == Init /\ [][GeneratePrayer \/ WriterSettles]_vars

\* ------------------------------------------------------------------ claims
\* a session that has run to completion without close(): finalization is over
\* (cruise control) or onComplete was delivered (staging)
Completed == pc # "idle" /\ ~isProcessing /\ hist.closeCalls = 0

SchedIdx == [i \in 1..Len(hist.scheduled) |-> hist.scheduled[i].idx]
AppendIdx == [i \in 1..Len(hist.appended) |-> hist.appended[i].idx]

\* C1: getDownloadUrl() is never invoked before finalizeStorage() of the session
\* has completed.
C1_UrlOnlyAfterFinalize == ~hist.urlBeforeFinalize

\* C2: onReadyToPlay is invoked at most once in any session, and exactly once in
\* every session that runs to completion without close().
C2_ReadyExactlyOnce ==
    /\ hist.readyCount <= 1
    /\ Completed => hist.readyCount = 1
C2_Witness ==
    /\ Completed /\ hist.readyCount = 1
    /\ totalBlocks >= 2 /\ Len(hist.appended) < totalBlocks

\* C3: whenever onReadyToPlay is invoked, at least one block has already been
\* scheduled on the playback clock.
C3_ReadyAfterFirstAudio == hist.readyCount > 0 => hist.schedAtReady > 0

\* C4: in the staging controller onComplete is invoked at most once, only with
\* the block queue and the staging queue empty and finalizeStorage completed,
\* finalizeStorage runs at most once, and a session run to completion without
\* close() has delivered onComplete and finalized exactly once.
C4_CompleteOnceAfterFinalize ==
    engine = "staging" =>
        /\ hist.completeCount <= 1
        /\ hist.finalizeCalls <= 1
        /\ hist.completeCount = 1 => hist.completeOk
        /\ Completed => hist.completeCount = 1 /\ hist.finalizeDone = 1
C4_Witness ==
    /\ engine = "staging" /\ Completed /\ hist.completeCount = 1
    /\ totalBlocks > BLOCKS_TO_BUFFER /\ Len(hist.scheduled) >= 2

\* C6: totalBytesWritten is the sum of the chunks appended so far, the stored
\* data is those chunks, and once finalizeStorage has completed the header's
\* data length is that sum, its RIFF size is 36 + the sum, and the container
\* is 44 + data length bytes long, on the persistent and the in-memory path.
C6_WriterInvariant ==
    /\ totalBytesWritten = SumLen(hist.appended)
    /\ usesFile => SumLen(file.data) = totalBytesWritten
    /\ (~usesFile /\ hist.finalizeDone = 0) => SumLen(memoryBuffer) = totalBytesWritten
    /\ hist.finalizeDone > 0 =>
         IF finalizeUsesFile
         THEN /\ file.header = "final"
              /\ file.dataLen = SumLen(hist.appended)
              /\ file.riff = 36 + SumLen(hist.appended)
              /\ HEADER_BYTES + SumLen(file.data) = 44 + file.dataLen
         ELSE /\ Len(memoryBuffer) = 1
              /\ memoryBuffer[1].kind = "container"
              /\ memoryBuffer[1].dataLen = SumLen(hist.appended)
              /\ memoryBuffer[1].riff = 36 + SumLen(hist.appended)
              /\ SumLen(memoryBuffer[1].chunks) = memoryBuffer[1].dataLen
              /\ memoryBuffer[1].len = 44 + memoryBuffer[1].dataLen
C6_Witness ==
    /\ hist.finalizeDone = 1 /\ finalizeUsesFile
    /\ Len(hist.appended) >= 2 /\ file.dataLen > 0

\* C7: in a session that runs to completion the blocks scheduled for playback
\* are the blocks appended to the writer, in the same order.
C7_FanOutConsistent == Completed => SchedIdx = AppendIdx

\* C8: after close() on the cruise-control controller no timer is active and
\* no further block is dequeued.
C8_CloseStopsCruise ==
    (engine = "cruise" /\ hist.closeCalls > 0) =>
        ~cruiseControlInterval /\ ~hist.dequeuedAfterClose

\* C9: after close() no further chunk is appended to the writer.
C9_NoWriteAfterClose ==
    hist.closeCalls > 0 =>
        totalBytesWritten = hist.bytesAtClose /\ ~hist.appendedAfterClose

\* C10: audioContext.close() is performed at most once per controller.
C10_CloseAtMostOnce == hist.ctxCloses <= 1


\* C5: in the cruise-control controller, without close() and with the clock
\* advancing, every block of a started session is eventually dequeued, after
\* which the timer is stopped, finalizeStorage has run exactly once and
\* onProgress(100) was the last report; finalizeStorage is never entered twice.
CruiseFinished ==
    /\ blockQueue = <<>> /\ Len(hist.dequeued) = totalBlocks
    /\ ~isProcessingQueue /\ ~cruiseControlInterval /\ ~isProcessing
    /\ hist.finalizeCalls = 1 /\ hist.finalizeDone = 1
    /\ hist.progress = <<1, 1>>
TickSingle == (cruiseControlInterval /\ ~isProcessingQueue) => tpc = "idle"

\* nothing of the session can run any more: startStream is over, no timer is
\* armed, no callback and no caller continuation is pending
SessionOver ==
    IF engine = "staging"
    THEN pc \in {"done", "error"}
    ELSE /\ pc \in {"returned", "error"} /\ tpc = "idle"
         /\ ~cruiseControlInterval /\ cpc # "getFile"

\* C11: once a session is over, by completion, by close() or by an error, a
\* writable stream that initStorage opened has been closed.
C11_WriterClosedAtExit == (SessionOver /\ writable # "null") => writable = "closed"

\* C12: processBlock calls generateSpeech at most 3 times for a chunk and never
\* again after a call that yielded audio; a chunk whose first two calls fail
\* and whose third yields audio has exactly one buffer in the voice track.
C12_RetryBound ==
    rendered.result # "none" =>
        \A i \in 1..Len(speech) :
            LET n == rendered.calls[i] IN
            /\ n >= 1 /\ n <= 3
            /\ \A j \in 1..(n - 1) : speech[i][j] # "data"
            /\ (speech[i][1] # "data" /\ speech[i][2] # "data" /\ speech[i][3] = "data")
                   => Cardinality({k \in DOMAIN rendered.buffers :
                                      rendered.buffers[k] = i}) = 1
C12_Witness ==
    /\ rendered.result = "voice"
    /\ \E i \in 1..Len(speech) :
          /\ speech[i][1] = "throw" /\ speech[i][2] = "empty" /\ speech[i][3] = "data"
          /\ rendered.calls[i] = 3
          /\ \E k \in DOMAIN rendered.buffers : rendered.buffers[k] = i

SchedSet == {hist.scheduled[k].idx : k \in DOMAIN hist.scheduled}
AppendSet == {hist.appended[k].idx : k \in DOMAIN hist.appended}

\* C13: a block renders to null exactly when none of its chunks yields audio
\* within the retries; such a block is never scheduled nor appended, its
\* render leaves the byte counter and the stored data (and, in the
\* cruise-control controller, the cursor) as they were, it does not put the
\* session into error, and a session run to completion has dequeued every block.
C13_NullBlockSkipped ==
    /\ [](hist.nulls = hist.unvoiced)
    /\ [](hist.nulls \cap (SchedSet \cup AppendSet) = {})
    /\ [](Completed => Len(hist.dequeued) = totalBlocks)
    /\ [][hist'.nulls # hist.nulls =>
             /\ UNCHANGED <<totalBytesWritten, memoryBuffer, file>>
             /\ hist'.appended = hist.appended
             /\ engine = "cruise" =>
                    /\ nextStartTime' = nextStartTime
                    /\ hist'.scheduled = hist.scheduled
             /\ hist'.thrown = hist.thrown => pc' # "error"]_vars
C13_Witness ==
    /\ Completed
    /\ \E i \in hist.nulls : \E j \in SchedSet \cap AppendSet : j > i

\* the data length recorded in the finalized container
FinalDataLen == IF finalizeUsesFile THEN file.dataLen ELSE memoryBuffer[1].dataLen

\* C14: a session of one block for whose chunks synthesis returns nothing runs
\* to completion without a throw and its finalized container has a data
\* section of non-zero length.
C14_ToneOnlyBlockWritten ==
    (totalBlocks = 1 /\ Completed /\ hist.unvoiced = {1}) =>
        /\ hist.thrown = {}
        /\ hist.finalizeDone = 1
        /\ FinalDataLen > 0

RECURSIVE SumDur(_)
SumDur(s) == IF s = <<>> THEN 0 ELSE Head(s).dur + SumDur(Tail(s))

\* C15: with the blocks scheduled back to back (the clock has not moved and
\* nothing has thrown), the cursor after the N-th scheduled block is the first
\* block's start plus the sum of the durations minus (N - 1) overlaps of 2 s,
\* and every block's fade-out ends at its own end.
C15_CursorArithmetic ==
    (hist.scheduled # <<>> /\ clockAdvances = 0 /\ hist.thrown = {}) =>
        /\ nextStartTime = hist.scheduled[1].start + SumDur(hist.scheduled)
                               - (Len(hist.scheduled) - 1) * 40
        /\ \A k \in DOMAIN hist.scheduled :
              hist.scheduled[k].fadeOutEnd
                  = hist.scheduled[k].start + hist.scheduled[k].dur

\* C16: in the staging controller nothing is scheduled before the first flush,
\* and the first flush finds min(4, N) rendered blocks in the staging queue.
C16_StagingThreshold ==
    engine = "staging" =>
        /\ hist.stagedAtFirstFlush = -1 => hist.scheduled = <<>>
        /\ hist.stagedAtFirstFlush # -1 =>
               hist.stagedAtFirstFlush = Min(4, totalBlocks)

\* C17: in the staging controller every processed block is followed by one
\* onProgress call, the k-th carrying k of N; the reports stay within (0, 100],
\* 100 is reported only with all N blocks processed, and a session of N >= 1
\* blocks run to completion has reported 100 last.
C17_StagingProgress ==
    /\ [](engine = "staging" /\ hist.progress # <<>> =>
             /\ hist.progress = <<processedBlockCount, totalBlocks>>
             /\ 0 < hist.progress[1] /\ hist.progress[1] <= hist.progress[2]
             /\ hist.progress[1] = hist.progress[2] => blockQueue = <<>>)
    /\ [](engine = "staging" /\ Completed /\ totalBlocks >= 1 =>
             hist.progress = <<totalBlocks, totalBlocks>>)
    /\ [][engine = "staging" /\ (processedBlockCount' # processedBlockCount
                                    \/ hist'.progress # hist.progress) =>
             /\ processedBlockCount' = processedBlockCount + 1
             /\ hist'.progress = <<processedBlockCount + 1, totalBlocks>>]_vars
C17_Witness ==
    /\ engine = "staging" /\ Completed /\ totalBlocks >= 3
    /\ hist.progress = <<totalBlocks, totalBlocks>>
    /\ hist.nulls # {}

\* what the finalized container holds, on either storage path
StoredContainer ==
    IF finalizeUsesFile
    THEN [riff |-> file.riff, dataLen |-> file.dataLen, data |-> file.data]
    ELSE [riff |-> memoryBuffer[1].riff, dataLen |-> memoryBuffer[1].dataLen,
          data |-> [k \in DOMAIN memoryBuffer[1].chunks |->
                       [idx |-> memoryBuffer[1].chunks[k].idx,
                        len |-> memoryBuffer[1].chunks[k].len]]]
\* the container of a chunk sequence: 44-byte header, then the chunks in order
ContainerOf(chunks) ==
    [riff |-> 36 + SumLen(chunks), dataLen |-> SumLen(chunks), data |-> chunks]

\* C18: whatever step of initStorage fails, the session runs on the in-memory
\* sink and startStream fails only after a throw of schedulePlayback or after
\* close(): run to completion without a throw, every block that rendered
\* audio is scheduled and appended in order; and the finalized container is,
\* on the in-memory path as on the persistent one, the header for the appended
\* chunks followed by those chunks in append order.
C18_FallbackEquivalent ==
    /\ hist.finalizeDone > 0 => StoredContainer = ContainerOf(hist.appended)
    /\ pc = "error" => (hist.thrown # {} \/ hist.closeCalls > 0)
    /\ (~useOPFS /\ Completed /\ hist.thrown = {}) =>
          /\ Len(hist.dequeued) = totalBlocks
          /\ SchedIdx = AppendIdx
          /\ AppendSet = (1..totalBlocks) \ hist.nulls
C18_Witness ==
    /\ ~useOPFS /\ fileHandle /\ writable = "open"
    /\ Completed /\ hist.finalizeDone = 1 /\ hist.thrown = {}
    /\ Len(hist.appended) >= 2

\* C19: pause() and resume() change nothing but the running / suspended state
\* of the playback clock, and the staging loop, reaching its head with blocks
\* left while the clock is suspended, dequeues the next block.
C19_TransportFrame ==
    /\ [][(Pause \/ Resume) =>
             /\ UNCHANGED <<queueVars, currentTime, nextStartTime, storeVars, taskVars>>
             /\ hist' = [hist EXCEPT !.transportAfterClose = hist'.transportAfterClose]
             /\ ctxState' # ctxState =>
                    {ctxState, ctxState'} = {"running", "suspended"}]_vars
    /\ [][(engine = "staging" /\ pc = "loop" /\ pc' # "loop" /\ blockQueue # <<>>
             /\ isProcessing /\ ctxState = "suspended") =>
             /\ pc' = "render"
             /\ blockQueue' = Tail(blockQueue)]_vars
C19_Witness ==
    /\ engine = "staging" /\ hist.dequeuedWhilePaused
    /\ ctxState = "suspended" /\ pc = "render"

\* C20: right after pause() a second pause() changes nothing, right after
\* resume() a second resume() changes nothing, and after close() neither call
\* changes the closed state of the clock.
C20_TransportIdempotent ==
    /\ [][Pause => pause(ctxState') = ctxState']_vars
    /\ [][Resume => resume(ctxState') = ctxState']_vars
    /\ [][((Pause \/ Resume) /\ hist.closeCalls > 0) =>
             ctxState' = "closed" /\ pc' = pc]_vars
C20_Witness ==
    /\ hist.transportAfterClose /\ ctxState = "closed"
    /\ hist.closeCalls > 0

\* the characters of s other than white space: runs of letters with their
\* lengths, and terminators
RECURSIVE Ink(_)
Ink(s) ==
    IF s = <<>> THEN <<>>
    ELSE LET rest == Ink(Tail(s))
             h == Head(s)
             n == IF h = "W" THEN LongWord ELSE 1
         IN IF h \in WhiteSpace THEN rest
            ELSE IF h = "."  THEN <<[c |-> ".", n |-> 1]>> \o rest
            ELSE IF rest # <<>> /\ Head(rest).c = "a"
                 THEN <<[c |-> "a", n |-> Head(rest).n + n]>> \o Tail(rest)
                 ELSE <<[c |-> "a", n |-> n]>> \o rest

RECURSIVE Concat(_)
Concat(ss) == IF ss = <<>> THEN <<>> ELSE Head(ss) \o Concat(Tail(ss))

\* C21: the chunks returned by splitTextIntoChunks, concatenated in order,
\* hold every character of the text other than white space, in order and
\* with none lost: also the text after the last terminator and the
\* terminators a text begins with.
C21_SegmenterRoundTrip ==
    segments # <<>> => Ink(Concat(segments)) = Ink(script)

\* C22: splitTextIntoChunks returns at least one chunk, every chunk is a
\* non-empty string, and a text without any terminator comes back as exactly
\* one chunk equal to the whole text.
C22_ChunksNonEmpty ==
    segments # <<>> =>
        /\ \A k \in DOMAIN segments : segments[k] # <<>>
        /\ (\A j \in DOMAIN script : script[j] \notin Terminators)
               => segments = <<script>>

\* the value an automation holds at the time of its event k
ValueAt(events, t) ==
    LET at == {k \in DOMAIN events : events[k].time = t}
    IN IF at = {} THEN -1
       ELSE events[CHOOSE k \in at : \A j \in at : j <= k].value

\* C30: for every intensity from 0 to 1, 0 included, the gain of the tone
\* layer is 0.3 * intensity at time 0, 0.15 * intensity at 0.5 s and (for a
\* voice longer than 1 s) still at 0.5 s before the voice ends, and 0.4 *
\* intensity at 0.5 s after the voice ends; a requested binaural layer plays
\* at the constant gain 0.06.
C30_Ducking ==
    automation # NoAutomation =>
        LET i == instructions.intensity
            v == instructions.voiceDuration
        IN /\ ValueAt(automation.tone, 0) = START_GAIN * i
           /\ ValueAt(automation.tone, DUCK_RAMP) = DUCK_GAIN * i 
           /\ v > HOLD_MIN => ValueAt(automation.tone, v - DUCK_RAMP) = DUCK_GAIN * i
           /\ ValueAt(automation.tone, v + DUCK_RAMP) = FULL_GAIN * i
           /\ instructions.binauralFreq # 0 => automation.binaural = <<BINAURAL_GAIN>>

\* the chunks of the block for which one of the attempts allowed yields audio
Voiced(plan) ==
    {i \in 1..Len(plan) : \E j \in 1..MAX_ATTEMPTS : plan[i][j] = "data"}

\* C27: a chunk whose three attempts all fail is dropped without ending the
\* block: every chunk of the block is attempted, the voice track holds the
\* buffers of exactly the chunks that succeeded, each once, in the order of
\* the text and end to end, and its length is the sum of their lengths.
C27_FailedChunkDropped ==
    rendered.result = "voice" =>
        LET data == rendered.voice.data IN
        /\ Len(rendered.calls) = Len(speech)
        /\ \A i \in 1..Len(speech) : rendered.calls[i] >= 1
        /\ {data[k].chunk : k \in DOMAIN data} = Voiced(speech)
        /\ Len(data) = Cardinality(Voiced(speech))
        /\ \A k \in DOMAIN data :
              /\ data[k].len = decoded(data[k].chunk).len
              /\ k > 1 => /\ data[k - 1].chunk < data[k].chunk
                          /\ data[k].at = data[k - 1].at + data[k - 1].len
              /\ k = 1 => data[k].at = 0
        /\ rendered.voice.len = SumLen(data)
C27_Witness ==
    /\ rendered.result = "voice"
    /\ Len(speech) = 2
    /\ \A j \in 1..MAX_ATTEMPTS : speech[1][j] # "data"
    /\ rendered.calls = <<3, 1>>
    /\ rendered.voice.len = decoded(2).len

\* C23: no call of schedulePlayback leaves the cursor nextStartTime below
\* the value it had when the call began, unless the call found the cursor
\* behind the clock and reset it; every block lasts longer than 1 s.
C23_CursorMonotone ==
    \A k \in DOMAIN hist.scheduled :
        LET b == hist.scheduled[k]
        IN b.dur > HOLD_MIN => (b.next >= b.entry \/ b.cursor # b.entry)

\* C24: every block, the first of the session included and however far the
\* clock ran while it was rendered, is scheduled to start at or after the
\* value of the clock at the time of scheduling.
C24_StartNotInPast ==
    \A k \in DOMAIN hist.scheduled :
        hist.scheduled[k].start >= hist.scheduled[k].now

\* C25: every block scheduled after the first starts at max(now, cursor - 2 s)
\* with a fade-in of 2 s and a fade-out of 2 s that ends at its end; the
\* first block starts at the cursor with the short fade only.
C25_CrossfadeRule ==
    \A k \in DOMAIN hist.scheduled :
        LET b == hist.scheduled[k] IN
        /\ b.fadeOutEnd = b.start + b.dur
        /\ k > 1 => /\ b.start = Max(b.now, b.cursor - CROSSFADE_DURATION)
                    /\ b.fade = CROSSFADE_DURATION
        /\ (k = 1 /\ b.idx = 1) =>
                    /\ b.start = b.cursor
                    /\ b.fade = IF engine = "cruise" THEN FIRST_FADE_CRUISE
                                ELSE FIRST_FADE_STAGING

\* C28: in the staging controller a flush schedules the staged blocks first
\* in, first out and leaves playbackStagingQueue empty; once playback has
\* begun every block staged is scheduled in the loop iteration that staged
\* it, so that the queue is empty and every block written has been scheduled
\* at the end of each later iteration and at completion.
C28_StagingDrained ==
    engine = "staging" =>
        /\ \A k \in 1..(Len(hist.scheduled) - 1) :
               hist.scheduled[k].idx < hist.scheduled[k + 1].idx
        /\ (hasStartedPlaying /\ pc # "error") =>
               /\ playbackStagingQueue = <<>>
               /\ SchedIdx = AppendIdx
        /\ Completed => playbackStagingQueue = <<>> /\ SchedIdx = AppendIdx
C28_Witness ==
    /\ engine = "staging" /\ Completed
    /\ totalBlocks = BLOCKS_TO_BUFFER + 1
    /\ hist.stagedAtFirstFlush = BLOCKS_TO_BUFFER
    /\ Len(hist.scheduled) = totalBlocks
    /\ playbackStagingQueue = <<>>

\* a processNext of the warm start / of a timer callback awaits synthesis or storage
WarmInFlight == pc \in {"render1", "write1", "render2", "write2"}
TickInFlight == tpc \in {"render", "write"}

StrictlyIncreasing(s) == \A k \in 1..(Len(s) - 1) : s[k] < s[k + 1]

\* C26: in the cruise-control controller at most one processNext is in flight
\* at any time, also while the interval timer keeps firing, and it holds the
\* isProcessingQueue flag; blocks are dequeued, scheduled and written in
\* strictly increasing script order, each at most once, and only after they
\* were dequeued.
C26_SingleProducer ==
    engine = "cruise" =>
        /\ ~(WarmInFlight /\ TickInFlight)
        /\ (WarmInFlight \/ TickInFlight) => isProcessingQueue
        /\ WarmInFlight => ~cruiseControlInterval
        /\ StrictlyIncreasing(hist.dequeued)
        /\ StrictlyIncreasing(SchedIdx)
        /\ StrictlyIncreasing(AppendIdx)
        /\ SchedSet \subseteq {hist.dequeued[k] : k \in DOMAIN hist.dequeued}
        /\ AppendSet \subseteq SchedSet
C26_Witness ==
    /\ engine = "cruise"
    /\ cruiseControlInterval /\ tpc = "render" /\ isProcessingQueue
    /\ hist.dequeued = <<1, 2, 3>>
    /\ Len(hist.scheduled) = 2

\* C29: a timer tick that finds a block queued and none in flight dequeues
\* the next block and starts processing it within the tick if the scheduled
\* audio ahead of the clock is below 180 s, and dequeues nothing if it is
\* above 300 s.
C29_CruisePacing ==
    [][(Tick /\ blockQueue # <<>> /\ ~isProcessingQueue) =>
          /\ nextStartTime - currentTime < LOW_WATERMARK =>
                 /\ blockQueue' = Tail(blockQueue)
                 /\ hist'.dequeued = Append(hist.dequeued, Head(blockQueue))
                 /\ tpc' = "render" /\ titem'.idx = Head(blockQueue)
                 /\ isProcessingQueue'
          /\ nextStartTime - currentTime > HIGH_WATERMARK =>
                 /\ blockQueue' = blockQueue
                 /\ hist'.dequeued = hist.dequeued
                 /\ tpc' = "idle"]_vars
\* a tick has found the third block queued behind more than 300 s of audio
C29_Witness ==
    /\ engine = "cruise" /\ cruiseControlInterval
    /\ blockQueue # <<>> /\ ~isProcessingQueue
    /\ nextStartTime - currentTime > HIGH_WATERMARK
    /\ clockAdvances = 0
    /\ hist.dequeued = <<1, 2>>
    /\ hist.progress = <<2, 3>>

\* C31: createPadBuffer gives each of the five moods its own set of base
\* frequencies: two different moods never get the same set.
C31_MoodsDistinct ==
    (pads # <<>> /\ moods[1] # moods[2]) =>
        {pads[1][k] : k \in DOMAIN pads[1]} # {pads[2][k] : k \in DOMAIN pads[2]}

\* the sentences of a text, as the pattern finds them; a text in which the
\* pattern finds nothing is one sentence
Sentences(t) == IF match(t) = <<>> THEN <<t>> ELSE match(t)

\* the chunk is one sentence of the text t, trimmed
SingleSentence(c, t) ==
    \E j \in DOMAIN Sentences(t) : trim(Sentences(t)[j]) = c

\* C32: a chunk of 300 characters or more is a single sentence that alone
\* has that length, a chunk merged from several sentences is shorter than
\* 300 characters, and the sentences come out in the order of the text.
C32_ChunkLengthBound ==
    segments # <<>> =>
        /\ \A k \in DOMAIN segments :
               length(segments[k]) >= CHUNK_LIMIT => SingleSentence(segments[k], script)
        /\ Ink(Concat(segments)) = Ink(Concat(Sentences(script)))

\* C33: for every block scheduled the fade-in ramp ends no later than the
\* fade-out ramp begins, so that the events of the gain envelope are in time
\* order; every block lasts longer than 1 s.
C33_EnvelopeOrdered ==
    \A k \in DOMAIN hist.scheduled :
        LET b == hist.scheduled[k]
        IN b.dur > HOLD_MIN =>
              /\ b.start + b.fade <= b.fadeOutStart
              /\ b.fadeOutStart <= b.fadeOutEnd

\* C38: in the cruise-control controller the first block that is scheduled
\* in a session starts at the cursor with the 0.5 s fade, without overlap
\* and without a gap reset, also when earlier blocks of the script gave no
\* audio.
C38_FirstScheduledPlain ==
    (engine = "cruise" /\ hist.scheduled # <<>>) =>
        LET b == hist.scheduled[1]
        IN /\ b.cursor = b.entry
           /\ b.start = b.entry
           /\ b.fade = FIRST_FADE_CRUISE

\* C34: in the cruise-control controller the blocks processed, the blocks
\* queued and the block in flight always add up to totalBlocks, whatever
\* blocks render, come out null or throw; so processedBlockCount never
\* exceeds totalBlocks and equals it once nothing is queued or in flight.
C34_BlockAccounting ==
    engine = "cruise" =>
        processedBlockCount + Len(blockQueue)
            + (IF WarmInFlight \/ TickInFlight THEN 1 ELSE 0) = totalBlocks

\* C35: a throw while one block is rendered, scheduled or written stays with
\* that block: when no processNext is in flight isProcessingQueue is false
\* again, and as long as the caller has not closed the controller
\* startStream is never ended by the throw, so the later blocks and the
\* finalization are still reached.
C35_ThrowContained ==
    /\ (engine = "cruise" /\ ~WarmInFlight /\ ~TickInFlight) => ~isProcessingQueue
    /\ hist.closeCalls = 0 => pc # "error"

\* C36: a clock that the caller paused is put back into the running state by
\* the caller's resume() only, never by the engine: neither by startStream
\* nor by the first flushStagingQueue.
C36_OnlyCallerResumes ==
    [][(ctxState = "suspended" /\ ctxState' = "running") => Resume]_vars

\* C37: once close() has been called none of onProgress, onReadyToPlay and
\* onComplete is invoked again, also when close() comes while a block is in
\* flight or while the finalization awaits.
C37_SilentAfterClose ==
    /\ ~hist.progressAfterClose
    /\ ~hist.readyAfterClose
    /\ ~hist.completeAfterClose

\* C39: every writeChunk appends 2 bytes per interleaved sample, 4 bytes per
\* stereo frame: totalBytesWritten is a multiple of the block align 4 and is
\* 4 times the number of frames appended; and every sample, also one outside
\* [-1, 1], is stored as a value of -32768..32767 that is its clamped and
\* scaled value, with nothing wrapped around.
C39_PcmAccounting ==
    /\ totalBytesWritten % BLOCK_ALIGN = 0
    /\ totalBytesWritten = BLOCK_ALIGN * pcmFrames
    /\ totalBytesWritten = SumLen(memoryBuffer)
    /\ Len(pcmOut) = Len(pcmIn)
    /\ \A i \in DOMAIN pcmOut :
          /\ pcmOut[i] \in (-INT16_NEG)..INT16_POS
          /\ pcmOut[i] = truncate(scaleSample(pcmIn[i]))
          /\ pcmIn[i] >= FULL_SCALE => pcmOut[i] = INT16_POS
          /\ pcmIn[i] <= -FULL_SCALE => pcmOut[i] = -INT16_NEG
C39_Witness ==
    /\ Len(memoryBuffer) = 2 /\ pcmFrames = 3
    /\ totalBytesWritten = 12
    /\ \E i \in DOMAIN pcmIn : pcmIn[i] > FULL_SCALE
    /\ \E i \in DOMAIN pcmIn : pcmIn[i] < -FULL_SCALE
    /\ \E i \in DOMAIN pcmOut : pcmOut[i] = 16383

\* C40: generateLongPrayer returns one script block per outline block, in
\* the order of the outline, whatever the order in which the two writer
\* calls of a pair settle and whichever of them fail; every block returned
\* has targetDuration = floor(duration * 60 / numBlocks), and every block
\* that a writer produced has pauseAfter <= 30.
C40_ScriptMatchesOutline ==
    /\ \A k \in DOMAIN prayer.fullScript :
          /\ prayer.fullScript[k].src = k
          /\ prayer.fullScript[k].targetDuration
                 = (prayer.duration * 60) \div prayer.numBlocks
          /\ prayer.fullScript[k].ok => prayer.fullScript[k].pauseAfter <= PAUSE_LIMIT
    /\ prayer.pc = "returned" => Len(prayer.fullScript) = prayer.outline
C40_Witness ==
    /\ prayer.pc = "returned" /\ prayer.outline = 2
    /\ prayer.settled = <<2, 1>>
    /\ ~prayer.fullScript[1].ok
    /\ prayer.fullScript[2].ok /\ prayer.fullScript[2].pauseAfter = PAUSE_LIMIT
    /\ prayer.duration = 50
====
